---- MODULE Spec2Model ----
(***************************************************************************)
(* Model of the Astronome metronome application (src/src/app.rs): the      *)
(* AppModel struct, AppModel::init, AppModel::update and the places that   *)
(* produce the messages update() handles (view, header menu, about page,   *)
(* subscription).                                                          *)
(*                                                                         *)
(* tempo and beats are u64 in the source.  TLC's integers are 32 bits      *)
(* wide, so the width of tempo is scaled down: U64_MAX stands for          *)
(* u64::MAX and arithmetic on tempo is done modulo U64_MAX + 1.  `tempo    *)
(* += 1` and `tempo -= 1` overflow exactly at the ends of that range, as   *)
(* in the source.  What an overflow does depends on how the crate is       *)
(* built: with overflow checks (the dev profile) the operation panics,     *)
(* without them (the release profile) it wraps.  overflow_checks is        *)
(* chosen in Init and never changes.                                       *)
(*                                                                         *)
(* Fields of AppModel that never change after init (core apart from        *)
(* window.show_context and the context title, key_binds, which stays the   *)
(* empty map) are left out.                                                *)
(***************************************************************************)
EXTENDS Integers, Sequences, FiniteSets, TLC

VARIABLES
    tempo,            \* AppModel.tempo: u64
    beats,            \* AppModel.beats: u64
    is_tempo_mode,    \* AppModel.is_tempo_mode: bool
    context_page,     \* AppModel.context_page: ContextPage
    show_context,     \* AppModel.core.window.show_context: bool
    context_title,    \* the context drawer's title set by set_context_title
    config,           \* AppModel.config: Config
    overflow_checks,  \* whether the build panics on integer overflow
    status,           \* "running", or "panicked" once update() has panicked
    subscription,     \* the channel subscription: "ready" before its one send, then "pending"
    last,             \* the type of the message update() handled last ("Init" before any)
    run,              \* repeated presses of one button: [n |-> presses, from |-> state before]
    other,            \* a second run of the application (state of its AppModel)
    trace             \* the intents handled so far, each with the metronome after it

vars == <<tempo, beats, is_tempo_mode, context_page, show_context, context_title,
          config, overflow_checks, status, subscription, last, run, other, trace>>

----------------------------------------------------------------------------
(* Bounds *)

\* Stands for u64::MAX: the largest value of tempo's type in the model.
U64_MAX == 255

\* Config values are 0..MaxConfig; 0 is Config::default().
MaxConfig == 1

\* The largest number of presses of one button in a row that SpecRepeat follows.
MaxPresses == 10

\* The largest number of intents that SpecTrace records from the initial state.
MaxTrace == 7

----------------------------------------------------------------------------
(* Types *)

\* enum ContextPage
ContextPage == {"About"}

\* ContextPage::default()
ContextPage_default == "About"

\* ContextPage::title
title(page) == IF page = "About" THEN "about" ELSE "?"

\* The values of crate::config::Config
Config == 0..MaxConfig

\* Config::default()
Config_default == 0

\* enum Message
Message ==
    {[type |-> t] : t \in {"OpenRepositoryUrl", "SubscriptionChannel", "ButtonUpPressed",
                           "ButtonDownPressed", "ButtonModePressed", "ButtonPlayPressed"}}
    \cup {[type |-> "ToggleContextPage", page |-> p] : p \in ContextPage}
    \cup {[type |-> "UpdateConfig", config |-> c] : c \in Config}

\* The four intents of the metronome
Intents == {"ButtonUpPressed", "ButtonDownPressed", "ButtonModePressed", "ButtonPlayPressed"}

\* The messages of the framework glue
FrameworkMessages == {"OpenRepositoryUrl", "SubscriptionChannel", "ToggleContextPage",
                      "UpdateConfig"}

\* The largest value of beats before Up wraps it to 0, and the value Down wraps 0 to
BEATS_MAX == 8

\* struct AppModel, with the position of the process
AppModel ==
    [tempo : 0..U64_MAX, beats : 0..U64_MAX, is_tempo_mode : BOOLEAN,
     context_page : ContextPage, show_context : BOOLEAN, context_title : {"", "about"},
     config : Config, status : {"running", "panicked"}]

----------------------------------------------------------------------------
(* u64 arithmetic *)

\* x + 1 on u64 overflows
add_overflows(x) == x + 1 > U64_MAX

\* x - 1 on u64 overflows
sub_overflows(x) == x - 1 < 0

\* x + 1 without overflow checks
wrapping_add(x) == (x + 1) % (U64_MAX + 1)

\* x - 1 without overflow checks
wrapping_sub(x) == (x - 1) % (U64_MAX + 1)

----------------------------------------------------------------------------
(* AppModel::init *)

\* The config init ends with: the loaded entry, the partly loaded entry of a
\* failed load, or the default when there is no config context.
LoadedConfigs == Config \cup {Config_default}

init(cfg) ==
    [tempo |-> 120, beats |-> 4, is_tempo_mode |-> TRUE,
     context_page |-> ContextPage_default, show_context |-> FALSE, context_title |-> "",
     config |-> cfg, status |-> "running"]

----------------------------------------------------------------------------
(* AppModel::update, one operator per arm *)

OnOpenRepositoryUrl(self) == self

OnSubscriptionChannel(self) == self

\* OnToggleContextPage also putting the metronome back into tempo mode
OnToggleContextPage_resets_mode(self, page) ==
    LET toggled == IF self.context_page = page
                   THEN [self EXCEPT !.show_context = ~self.show_context]
                   ELSE [self EXCEPT !.context_page = page, !.show_context = TRUE]
    IN  [toggled EXCEPT !.context_title = title(page), !.is_tempo_mode = TRUE]

\* OnToggleContextPage with the comparison inverted (`!=` for `==`): the
\* same page opens the drawer instead of toggling it
OnToggleContextPage_always_opens(self, page) ==
    LET toggled == IF self.context_page # page
                   THEN [self EXCEPT !.show_context = ~self.show_context]
                   ELSE [self EXCEPT !.context_page = page, !.show_context = TRUE]
    IN  [toggled EXCEPT !.context_title = title(page)]

OnToggleContextPage(self, page) ==
    LET toggled == IF self.context_page = page
                   THEN [self EXCEPT !.show_context = ~self.show_context]
                   ELSE [self EXCEPT !.context_page = page, !.show_context = TRUE]
    IN  [toggled EXCEPT !.context_title = title(page)]

\* OnUpdateConfig also taking the tempo from the new configuration
OnUpdateConfig_sets_tempo(self, cfg) == [self EXCEPT !.config = cfg, !.tempo = 120 + cfg]

OnUpdateConfig(self, cfg) == [self EXCEPT !.config = cfg]

\* up_beats without the wrap at BEATS_MAX (`<=` for `<`)
up_beats_no_wrap(b) ==
    IF b <= BEATS_MAX THEN b + 1
    ELSE IF b = BEATS_MAX THEN 0
    ELSE b

\* up_beats wrapping one early (`>=` for `==` after `< BEATS_MAX - 1`)
up_beats_early_wrap(b) ==
    IF b < BEATS_MAX - 1 THEN b + 1
    ELSE 0

\* up_beats stopping at BEATS_MAX instead of wrapping to 0
up_beats_saturating(b) ==
    IF b < BEATS_MAX THEN b + 1
    ELSE b

\* ButtonUpPressed, beats mode: the new value of beats
up_beats(b) ==
    IF b < BEATS_MAX THEN b + 1
    ELSE IF b = BEATS_MAX THEN 0
    ELSE b

\* down_beats wrapping 0 to BEATS_MAX - 1
down_beats_short_wrap(b) ==
    IF b > 0 THEN b - 1
    ELSE IF b = 0 THEN BEATS_MAX - 1
    ELSE b

\* down_beats without the wrap at 0 (`>=` for `>`, on a value that saturates)
down_beats_no_wrap(b) ==
    IF b > 0 THEN b - 1
    ELSE 0

\* ButtonDownPressed, beats mode: the new value of beats
down_beats(b) ==
    IF b > 0 THEN b - 1
    ELSE IF b = 0 THEN BEATS_MAX
    ELSE b

\* OnButtonUpPressed with the beats arm not under the else: it runs in
\* tempo mode as well
OnButtonUpPressed_both(self, checks) ==
    LET stepped == [self EXCEPT !.beats = up_beats(self.beats)]
    IN  IF self.is_tempo_mode
        THEN IF add_overflows(self.tempo)
             THEN IF checks THEN [self EXCEPT !.status = "panicked"]
                            ELSE [stepped EXCEPT !.tempo = wrapping_add(self.tempo)]
             ELSE [stepped EXCEPT !.tempo = self.tempo + 1]
        ELSE stepped

OnButtonUpPressed(self, checks) ==
    IF self.is_tempo_mode
    THEN IF add_overflows(self.tempo)
         THEN IF checks THEN [self EXCEPT !.status = "panicked"]
                        ELSE [self EXCEPT !.tempo = wrapping_add(self.tempo)]
         ELSE [self EXCEPT !.tempo = self.tempo + 1]
    ELSE [self EXCEPT !.beats = up_beats(self.beats)]

OnButtonDownPressed(self, checks) ==
    IF self.is_tempo_mode
    THEN IF sub_overflows(self.tempo)
         THEN IF checks THEN [self EXCEPT !.status = "panicked"]
                        ELSE [self EXCEPT !.tempo = wrapping_sub(self.tempo)]
         ELSE [self EXCEPT !.tempo = self.tempo - 1]
    ELSE [self EXCEPT !.beats = down_beats(self.beats)]

\* OnButtonModePressed with the else arm assigning false as well
OnButtonModePressed_stuck(self) ==
    IF self.is_tempo_mode THEN [self EXCEPT !.is_tempo_mode = FALSE]
                          ELSE [self EXCEPT !.is_tempo_mode = FALSE]

OnButtonModePressed(self) ==
    IF self.is_tempo_mode THEN [self EXCEPT !.is_tempo_mode = FALSE]
                          ELSE [self EXCEPT !.is_tempo_mode = TRUE]

\* OnButtonPlayPressed starting a measure: beats back to 0
OnButtonPlayPressed_restarts(self) == [self EXCEPT !.beats = 0]

OnButtonPlayPressed(self) == self

update(self, message, checks) ==
    CASE message.type = "OpenRepositoryUrl"   -> OnOpenRepositoryUrl(self)
      [] message.type = "SubscriptionChannel" -> OnSubscriptionChannel(self)
      [] message.type = "ToggleContextPage"   -> OnToggleContextPage(self, message.page)
      [] message.type = "UpdateConfig"        -> OnUpdateConfig(self, message.config)
      [] message.type = "ButtonUpPressed"     -> OnButtonUpPressed(self, checks)
      [] message.type = "ButtonDownPressed"   -> OnButtonDownPressed(self, checks)
      [] message.type = "ButtonModePressed"   -> OnButtonModePressed(self)
      [] message.type = "ButtonPlayPressed"   -> OnButtonPlayPressed(self)

----------------------------------------------------------------------------
(* The application as a state machine *)

\* The AppModel held in the variables
Self ==
    [tempo |-> tempo, beats |-> beats, is_tempo_mode |-> is_tempo_mode,
     context_page |-> context_page, show_context |-> show_context,
     context_title |-> context_title, config |-> config, status |-> status]

\* The variables become the AppModel m
Becomes(m) ==
    /\ tempo' = m.tempo
    /\ beats' = m.beats
    /\ is_tempo_mode' = m.is_tempo_mode
    /\ context_page' = m.context_page
    /\ show_context' = m.show_context
    /\ context_title' = m.context_title
    /\ config' = m.config
    /\ status' = m.status

\* The metronome's part of an AppModel
Metronome(m) == [tempo |-> m.tempo, beats |-> m.beats, is_tempo_mode |-> m.is_tempo_mode]

\* update() handles message; a panicked process handles nothing more.
Handle(message) ==
    /\ status = "running"
    /\ Becomes(update(Self, message, overflow_checks))
    /\ last' = message.type
    /\ UNCHANGED overflow_checks

NoRun == [n |-> 0, from |-> <<>>]

Init ==
    /\ \E cfg \in LoadedConfigs :
         /\ tempo = init(cfg).tempo
         /\ beats = init(cfg).beats
         /\ is_tempo_mode = init(cfg).is_tempo_mode
         /\ context_page = init(cfg).context_page
         /\ show_context = init(cfg).show_context
         /\ context_title = init(cfg).context_title
         /\ config = init(cfg).config
         /\ status = init(cfg).status
    /\ overflow_checks \in BOOLEAN
    /\ subscription = "ready"
    /\ last = "Init"
    /\ run = NoRun
    /\ trace = <<>>
    /\ other = <<>>

(* Spec: update() called with any sequence of messages *)

OpenRepositoryUrl ==
    Handle([type |-> "OpenRepositoryUrl"]) /\ UNCHANGED <<subscription, run, other, trace>>

SubscriptionChannel ==
    Handle([type |-> "SubscriptionChannel"]) /\ UNCHANGED <<subscription, run, other, trace>>

ToggleContextPage ==
    \E page \in ContextPage :
        Handle([type |-> "ToggleContextPage", page |-> page])
        /\ UNCHANGED <<subscription, run, other, trace>>

UpdateConfig ==
    \E cfg \in Config :
        Handle([type |-> "UpdateConfig", config |-> cfg])
        /\ UNCHANGED <<subscription, run, other, trace>>

ButtonUpPressed ==
    Handle([type |-> "ButtonUpPressed"]) /\ UNCHANGED <<subscription, run, other, trace>>

ButtonDownPressed ==
    Handle([type |-> "ButtonDownPressed"]) /\ UNCHANGED <<subscription, run, other, trace>>

ButtonModePressed ==
    Handle([type |-> "ButtonModePressed"]) /\ UNCHANGED <<subscription, run, other, trace>>

ButtonPlayPressed ==
    Handle([type |-> "ButtonPlayPressed"]) /\ UNCHANGED <<subscription, run, other, trace>>

Next ==
    \/ OpenRepositoryUrl
    \/ SubscriptionChannel
    \/ ToggleContextPage
    \/ UpdateConfig
    \/ ButtonUpPressed
    \/ ButtonDownPressed
    \/ ButtonModePressed
    \/ ButtonPlayPressed

Spec == Init /\ [][Next]_vars

----------------------------------------------------------------------------
(* SpecRepeat: one button pressed again and again.  The run starts in any  *)
(* state of the metronome (every tempo, every beats in 0..BEATS_MAX and    *)
(* both modes are reached under Spec), and `run` counts the presses and    *)
(* keeps the metronome's state before the first of them.                   *)

InitRepeat ==
    /\ tempo \in 0..U64_MAX
    /\ beats \in 0..BEATS_MAX
    /\ is_tempo_mode \in BOOLEAN
    /\ context_page = ContextPage_default
    /\ show_context = FALSE
    /\ context_title = ""
    /\ config = Config_default
    /\ status = "running"
    /\ overflow_checks \in BOOLEAN
    /\ subscription = "ready"
    /\ last = "Init"
    /\ run = NoRun
    /\ trace = <<>>
    /\ other = <<>>

\* One more press of the button that sends the message of type t
Press(t) ==
    /\ run.n < MaxPresses
    /\ run.n = 0 \/ last = t
    /\ Handle([type |-> t])
    /\ run' = [n |-> run.n + 1, from |-> IF run.n = 0 THEN Metronome(Self) ELSE run.from]
    /\ UNCHANGED <<subscription, other, trace>>

PressUp == Press("ButtonUpPressed")

PressDown == Press("ButtonDownPressed")

PressMode == Press("ButtonModePressed")

PressPlay == Press("ButtonPlayPressed")

NextRepeat ==
    \/ PressUp
    \/ PressDown
    \/ PressMode
    \/ PressPlay

SpecRepeat == InitRepeat /\ [][NextRepeat]_vars

----------------------------------------------------------------------------
(* SpecPair: two runs of the same build of the application.  Both receive  *)
(* the same intents in the same order; each loads its own configuration    *)
(* at start and receives its own UpdateConfig messages.                    *)

InitPair ==
    /\ \E cfg \in LoadedConfigs :
         /\ tempo = init(cfg).tempo
         /\ beats = init(cfg).beats
         /\ is_tempo_mode = init(cfg).is_tempo_mode
         /\ context_page = init(cfg).context_page
         /\ show_context = init(cfg).show_context
         /\ context_title = init(cfg).context_title
         /\ config = init(cfg).config
         /\ status = init(cfg).status
    /\ \E cfg \in LoadedConfigs : other = init(cfg)
    /\ overflow_checks \in BOOLEAN
    /\ subscription = "ready"
    /\ last = "Init"
    /\ run = NoRun
    /\ trace = <<>>

\* Both runs handle the intent of type t
BothHandle(t) ==
    /\ other.status = "running"
    /\ Handle([type |-> t])
    /\ other' = update(other, [type |-> t], overflow_checks)
    /\ UNCHANGED <<subscription, run, trace>>

BothUp == BothHandle("ButtonUpPressed")

BothDown == BothHandle("ButtonDownPressed")

BothMode == BothHandle("ButtonModePressed")

BothPlay == BothHandle("ButtonPlayPressed")

\* The first run's configuration changes
ConfigChanges ==
    \E cfg \in Config :
        /\ Handle([type |-> "UpdateConfig", config |-> cfg])
        /\ UNCHANGED <<subscription, run, other, trace>>

\* The second run's configuration changes
OtherConfigChanges ==
    \E cfg \in Config :
        /\ other.status = "running"
        /\ other' = update(other, [type |-> "UpdateConfig", config |-> cfg], overflow_checks)
        /\ UNCHANGED <<tempo, beats, is_tempo_mode, context_page, show_context,
                       context_title, config, overflow_checks, status, subscription,
                       last, run, trace>>

NextPair ==
    \/ BothUp
    \/ BothDown
    \/ BothMode
    \/ BothPlay
    \/ ConfigChanges
    \/ OtherConfigChanges

SpecPair == InitPair /\ [][NextPair]_vars

----------------------------------------------------------------------------
(* SpecView: the messages come from the places of the application that     *)
(* produce them: the buttons of view(), the menu of header_start(), the    *)
(* about page shown by context_drawer() and the two subscriptions.         *)

\* MenuAction::message
MenuAction_message(action) ==
    IF action = "About" THEN [type |-> "ToggleContextPage", page |-> "About"]
    ELSE [type |-> "?"]

\* view with a Play button as well
view_with_play(self) ==
    {[type |-> "ButtonModePressed"], [type |-> "ButtonUpPressed"],
     [type |-> "ButtonDownPressed"], [type |-> "ButtonPlayPressed"]}

\* AppModel::view: the messages of the buttons it renders
view(self) ==
    {[type |-> "ButtonModePressed"], [type |-> "ButtonUpPressed"],
     [type |-> "ButtonDownPressed"]}

\* AppModel::header_start: the messages of the menu bar's items
header_start(self) == {MenuAction_message("About")}

\* AppModel::about: the message of the repository link
about(self) == {[type |-> "OpenRepositoryUrl"]}

\* AppModel::context_drawer: the messages of the drawer, when it is shown
context_drawer(self) == IF ~self.show_context THEN {} ELSE about(self)

\* A button of the view is pressed
ViewPressed ==
    \E message \in view(Self) :
        Handle(message) /\ UNCHANGED <<subscription, run, other, trace>>

\* An item of the menu bar is selected
MenuSelected ==
    \E message \in header_start(Self) :
        Handle(message) /\ UNCHANGED <<subscription, run, other, trace>>

\* A control of the context drawer is pressed
DrawerPressed ==
    \E message \in context_drawer(Self) :
        Handle(message) /\ UNCHANGED <<subscription, run, other, trace>>

\* The channel subscription sends its one message and then pends for ever
ChannelSends ==
    /\ subscription = "ready"
    /\ Handle([type |-> "SubscriptionChannel"])
    /\ subscription' = "pending"
    /\ UNCHANGED <<run, other, trace>>

\* The config watcher reports a changed configuration
ConfigWatched ==
    \E cfg \in Config :
        Handle([type |-> "UpdateConfig", config |-> cfg])
        /\ UNCHANGED <<subscription, run, other, trace>>

NextView ==
    \/ ViewPressed
    \/ MenuSelected
    \/ DrawerPressed
    \/ ChannelSends
    \/ ConfigWatched

SpecView == Init /\ [][NextView]_vars

----------------------------------------------------------------------------
(* SpecTrace: the intents handled from the initial state, recorded in      *)
(* `trace` together with the metronome each of them left.                  *)

\* update() handles the intent of type t and the trace records it
Record(t) ==
    /\ Len(trace) < MaxTrace
    /\ Handle([type |-> t])
    /\ trace' = Append(trace, [type |-> t,
                               after |-> Metronome(update(Self, [type |-> t],
                                                          overflow_checks))])
    /\ UNCHANGED <<subscription, run, other>>

RecordUp == Record("ButtonUpPressed")

RecordDown == Record("ButtonDownPressed")

RecordMode == Record("ButtonModePressed")

RecordPlay == Record("ButtonPlayPressed")

NextTrace ==
    \/ RecordUp
    \/ RecordDown
    \/ RecordMode
    \/ RecordPlay

SpecTrace == Init /\ [][NextTrace]_vars

\* The metronome before the i-th intent of the trace
Before(i) == IF i = 1 THEN Metronome(init(Config_default)) ELSE trace[i - 1].after

----------------------------------------------------------------------------
(* Properties *)

\* C1: in every state reached by any sequence of messages handled by
\* update(), beats is in the inclusive range 0..8.
C1_BeatsInRange == beats \in 0..8

\* Up has just wrapped beats from 8 to 0.
C1_Witness ==
    /\ last = "ButtonUpPressed"
    /\ ~is_tempo_mode
    /\ beats = 0
    /\ status = "running"

\* C2: Down in tempo mode decrements tempo by exactly 1 for every tempo
\* value, tempo = 0 included: the new tempo is the old tempo minus 1.
C2_DownDecrementsTempo ==
    [][ButtonDownPressed /\ is_tempo_mode => tempo' = tempo - 1]_vars

\* C3: every intent completes and yields a successor state; none ends in a
\* panic.
C3_IntentsTotal == status # "panicked"

\* C4: in beats mode, from every beats in 0..8, 9 presses of Up in a row
\* bring beats back to the value it started from, and no smaller positive
\* number of presses does.  (Checked for every number of presses up to
\* MaxPresses: beats is back at its start exactly at the multiples of 9.)
C4_UpCycleIs9 ==
    (last = "ButtonUpPressed" /\ ~is_tempo_mode /\ run.n >= 1)
        => (beats = run.from.beats <=> run.n % 9 = 0)

\* Nine presses of Up in beats mode have been handled and beats is back.
C4_Witness ==
    /\ last = "ButtonUpPressed"
    /\ ~is_tempo_mode
    /\ run.n = 9
    /\ run.from.beats = 5
    /\ beats = 5

\* C5: in beats mode, from every beats in 0..8, beats stays in 0..8 under
\* Down, 9 presses of Down in a row bring it back to the value it started
\* from, and no smaller positive number of presses does.
C5_DownCycleIs9 ==
    (last = "ButtonDownPressed" /\ ~is_tempo_mode /\ run.n >= 1)
        => /\ beats \in 0..8
           /\ beats = run.from.beats <=> run.n % 9 = 0

\* Nine presses of Down in beats mode have been handled and beats is back.
C5_Witness ==
    /\ last = "ButtonDownPressed"
    /\ ~is_tempo_mode
    /\ run.n = 9
    /\ run.from.beats = 3
    /\ beats = 3

\* C6: ToggleMode is an involution: one press negates is_tempo_mode, two
\* presses in a row restore it, and no press changes tempo or beats.
C6_ToggleInvolution ==
    (last = "ButtonModePressed" /\ run.n >= 1)
        => /\ is_tempo_mode = IF run.n % 2 = 1 THEN ~run.from.is_tempo_mode
                                              ELSE run.from.is_tempo_mode
           /\ tempo = run.from.tempo
           /\ beats = run.from.beats

\* ToggleMode has been pressed twice from beats mode and the mode is back.
C6_Witness ==
    /\ last = "ButtonModePressed"
    /\ run.n = 2
    /\ ~run.from.is_tempo_mode
    /\ ~is_tempo_mode

\* C7: Play is a no-op: handling ButtonPlayPressed leaves tempo, beats,
\* is_tempo_mode and every other field of the model unchanged.
C7_PlayNoOp ==
    [][ButtonPlayPressed
        => UNCHANGED <<tempo, beats, is_tempo_mode, context_page, show_context,
                       context_title, config, status>>]_vars

\* Play has been handled in a state that is not the initial one.
C7_Witness ==
    /\ last = "ButtonPlayPressed"
    /\ status = "running"
    /\ ~is_tempo_mode
    /\ beats = 7
    /\ tempo = 119
    /\ show_context

\* The framework messages, as steps of Spec
FrameworkStep ==
    \/ OpenRepositoryUrl
    \/ SubscriptionChannel
    \/ ToggleContextPage
    \/ UpdateConfig

\* C8: the metronome starts as tempo = 120, beats = 4, is_tempo_mode = true,
\* and handling OpenRepositoryUrl, SubscriptionChannel, ToggleContextPage
\* or UpdateConfig leaves tempo, beats and is_tempo_mode unchanged.
C8_OnlyIntentsMutate ==
    /\ tempo = 120 /\ beats = 4 /\ is_tempo_mode = TRUE
    /\ [][FrameworkStep => UNCHANGED <<tempo, beats, is_tempo_mode>>]_vars

\* A framework message has been handled in beats mode, away from the
\* initial tempo and beats.
C8_Witness ==
    /\ last = "ToggleContextPage"
    /\ show_context
    /\ ~is_tempo_mode
    /\ beats = 8
    /\ tempo = 121

\* C9: two runs that receive the same intents in the same order, with
\* different loaded configurations and different UpdateConfig messages, have
\* equal tempo, beats and is_tempo_mode.
C9_StateDependsOnIntentsOnly == Metronome(other) = Metronome(Self)

\* The two runs hold different configurations after an UpdateConfig in the
\* second, and an intent has moved the metronome of both.
C9_Witness ==
    /\ last = "ButtonDownPressed"
    /\ config # other.config
    /\ config = Config_default
    /\ tempo = 118
    /\ other.tempo = 118

C11_UpIncrementsTempo ==
    [][ButtonUpPressed /\ is_tempo_mode
        => /\ tempo' = tempo + 1
           /\ beats' = beats
           /\ is_tempo_mode' = is_tempo_mode]_vars

\* The types of the intents of the trace, in order
TraceTypes == [i \in 1..Len(trace) |-> trace[i].type]

\* ToggleMode followed by k Ups
ModeThenUps(k) == [i \in 1..(k + 1) |-> IF i = 1 THEN "ButtonModePressed"
                                                ELSE "ButtonUpPressed"]

\* C12: from the initial state, one ToggleMode followed by five Ups gives
\* beats 5, 6, 7, 8, 0 in turn (0 at the end), and tempo stays 120
\* throughout.
C12_ToggleThenFiveUps ==
    /\ TraceTypes = <<"ButtonModePressed">> => beats = 4 /\ tempo = 120
    /\ \A k \in 1..5 :
         TraceTypes = ModeThenUps(k)
             => /\ beats = <<5, 6, 7, 8, 0>>[k]
                /\ tempo = 120

\* ToggleMode and five Ups have been handled from the initial state.
C12_Witness ==
    /\ TraceTypes = ModeThenUps(5)
    /\ [i \in 1..6 |-> trace[i].after.beats] = <<4, 5, 6, 7, 8, 0>>
    /\ beats = 0

\* C13: Down in beats mode maps beats > 0 to beats - 1 and beats = 0 to 8,
\* and leaves tempo and is_tempo_mode unchanged (so from beats = 0 one Down
\* gives beats = 8).
C13_DownInBeatsMode ==
    [][ButtonDownPressed /\ ~is_tempo_mode
        => /\ beats > 0 => beats' = beats - 1
           /\ beats = 0 => beats' = 8
           /\ tempo' = tempo
           /\ is_tempo_mode' = is_tempo_mode]_vars

\* Down has just been handled in beats mode and has left beats = 8, the
\* value it gives from beats = 0 only.
C13_Witness ==
    /\ last = "ButtonDownPressed"
    /\ ~is_tempo_mode
    /\ beats = 8
    /\ tempo = 120
    /\ status = "running"

\* The last two intents of the trace were of types first and second, the
\* first of them handled in beats mode
LastTwoInBeatsMode(first, second) ==
    /\ Len(trace) >= 2
    /\ trace[Len(trace) - 1].type = first
    /\ trace[Len(trace)].type = second
    /\ ~Before(Len(trace) - 1).is_tempo_mode

\* C14: in beats mode Up and Down are inverses of each other: Up followed
\* by Down, and Down followed by Up, give back the beats they started from
\* (across the wraps 8 -> 0 and 0 -> 8 too), with tempo and is_tempo_mode
\* unchanged.
C14_UpDownInverse ==
    (\/ LastTwoInBeatsMode("ButtonUpPressed", "ButtonDownPressed")
     \/ LastTwoInBeatsMode("ButtonDownPressed", "ButtonUpPressed"))
        => /\ Metronome(Self) = Before(Len(trace) - 1)
           /\ trace[Len(trace) - 1].after.tempo = tempo
           /\ trace[Len(trace) - 1].after.is_tempo_mode = is_tempo_mode

\* Up then Down from beats = 8, across the wrap to 0 and back.
C14_Witness ==
    /\ LastTwoInBeatsMode("ButtonUpPressed", "ButtonDownPressed")
    /\ Before(Len(trace) - 1).beats = 8
    /\ trace[Len(trace) - 1].after.beats = 0
    /\ beats = 8

\* Down then Up from beats = 0, across the wrap to 8 and back.
C14_WitnessDownUp ==
    /\ LastTwoInBeatsMode("ButtonDownPressed", "ButtonUpPressed")
    /\ Before(Len(trace) - 1).beats = 0
    /\ trace[Len(trace) - 1].after.beats = 8
    /\ beats = 0

\* C15: the mode flag selects exactly one counter: an Up or a Down changes
\* nothing but tempo when is_tempo_mode is true and nothing but beats when
\* it is false; the other counter and is_tempo_mode itself are unchanged.
C15_ModeSelectsCounter ==
    [][ButtonUpPressed \/ ButtonDownPressed
        => /\ is_tempo_mode' = is_tempo_mode
           /\ is_tempo_mode => beats' = beats
           /\ ~is_tempo_mode => tempo' = tempo
           /\ UNCHANGED <<context_page, show_context, context_title, config>>]_vars

\* An Up in tempo mode has moved tempo, after Downs in beats mode had
\* moved beats.
C15_Witness ==
    /\ last = "ButtonUpPressed"
    /\ is_tempo_mode
    /\ tempo = 121
    /\ beats = 2
    /\ status = "running"

\* C16: About is the only context page and the default one, so
\* context_page is About in every reachable state, every ToggleContextPage
\* takes the same-page branch and negates show_context (the other branch is
\* never taken), and two ToggleContextPage in a row restore show_context.
C16_ContextPageAlwaysAbout ==
    /\ [](context_page = "About")
    /\ [][ToggleContextPage
           => /\ show_context' = ~show_context
              /\ \A page \in ContextPage : Self.context_page = page]_vars

\* ToggleContextPage has been handled at least twice: the drawer has a
\* title and is closed again.
C16_Witness ==
    /\ last = "ToggleContextPage"
    /\ context_title = "about"
    /\ ~show_context
    /\ ~is_tempo_mode

====
